---------------------------- MODULE Spec2Model ----------------------------
(***************************************************************************)
(* CSV email validator service: the job registry (JobStore), the row       *)
(* transformer (CSVProcessor.ProcessCSV), the email predicate              *)
(* (EmailValidator) and the upload / worker / download flow (App).         *)
(*                                                                         *)
(* Strings whose characters matter (CSV fields) are sequences of           *)
(* one-character strings; messages and paths are TLA+ strings.             *)
(***************************************************************************)
EXTENDS Integers, Sequences, FiniteSets, TLC

\* ------------------------------------------------------------------ bounds
\* Number of uploads (job ids) the model follows.
MaxJobs == 2
\* Number of download requests that can be in flight at the same time.
MaxDownloads == 1
\* Rows that fit the csv.Writer's buffer before it is written through to
\* the file (the library's buffer is 4096 bytes; the model counts rows).
BufCap == 2
\* Goroutines that use the store at the same time in the direct-call runs.
MaxCtx == 3
\* Lines of a source file in the direct runs of ProcessCSV.
MaxLines == 3
\* Characters between the first and the last character of the part before
\* the @ in the arguments of the direct calls of IsValidEmail.
MaxMid == 2
\* Fields of a row in the direct calls of HasValidEmail.
MaxFields == 3

\* ------------------------------------------------------------ job statuses
JobStatusProcessing == "processing"
JobStatusCompleted == "completed"
JobStatusFailed == "failed"

Terminal == {JobStatusCompleted, JobStatusFailed}

\* ---------------------------------------------------------- EmailValidator
Letters == {"a", "b", "c", "o", "n", "A"}
Digits == {"1"}
AlNum == Letters \cup Digits
LocalClass == AlNum \cup {".", "_", "%", "+", "-"}
DomainClass == AlNum \cup {".", "-"}
WhiteSpace == {" ", "\t"}

RECURSIVE TrimLeft(_)
TrimLeft(s) ==
    IF s # <<>> /\ Head(s) \in WhiteSpace THEN TrimLeft(Tail(s)) ELSE s

RECURSIVE TrimRight(_)
TrimRight(s) ==
    IF s # <<>> /\ s[Len(s)] \in WhiteSpace
    THEN TrimRight(SubSeq(s, 1, Len(s) - 1))
    ELSE s

TrimSpaceLeftOnly(s) == TrimLeft(s)
TrimSpace(s) == TrimRight(TrimLeft(s))

AllIn(s, class) == \A i \in 1..Len(s) : s[i] \in class

\* [a-zA-Z0-9]([class]*[a-zA-Z0-9])? matched against the whole of s
BoundedLoose(s, class) == Len(s) >= 1 /\ AllIn(s, class)
Bounded(s, class) ==
    /\ Len(s) >= 1
    /\ s[1] \in AlNum
    /\ s[Len(s)] \in AlNum
    /\ AllIn(s, class)

\* emailPattern, anchored at both ends
MatchEmailRegexNoDoubleDot(s) ==
    /\ \A i \in 1..(Len(s) - 1) : ~(s[i] = "." /\ s[i + 1] = ".")
    /\ \E at \in 1..Len(s) :
          /\ s[at] = "@"
          /\ Bounded(SubSeq(s, 1, at - 1), LocalClass)
          /\ \E dot \in (at + 1)..Len(s) :
                /\ s[dot] = "."
                /\ Bounded(SubSeq(s, at + 1, dot - 1), DomainClass)
                /\ Len(s) - dot >= 2
                /\ AllIn(SubSeq(s, dot + 1, Len(s)), Letters)
MatchEmailRegex(s) ==
    \E at \in 1..Len(s) :
        /\ s[at] = "@"
        /\ Bounded(SubSeq(s, 1, at - 1), LocalClass)
        /\ \E dot \in (at + 1)..Len(s) :
              /\ s[dot] = "."
              /\ Bounded(SubSeq(s, at + 1, dot - 1), DomainClass)
              /\ Len(s) - dot >= 2
              /\ AllIn(SubSeq(s, dot + 1, Len(s)), Letters)

IsValidEmailUntrimmed(email) ==
    IF email = <<>> THEN FALSE ELSE MatchEmailRegex(email)
IsValidEmail(email) ==
    LET e == TrimSpace(email)
    IN  IF e = <<>> THEN FALSE ELSE MatchEmailRegex(e)

\* the pattern the README documents:
\* ^[a-zA-Z0-9._%+-]+@[a-zA-Z0-9.-]+\.[a-zA-Z]{2,}$
MatchReadmePattern(s) ==
    \E at \in 1..Len(s) :
        /\ s[at] = "@"
        /\ at > 1
        /\ AllIn(SubSeq(s, 1, at - 1), LocalClass)
        /\ \E dot \in (at + 2)..Len(s) :
              /\ s[dot] = "."
              /\ AllIn(SubSeq(s, at + 1, dot - 1), DomainClass)
              /\ Len(s) - dot >= 2
              /\ AllIn(SubSeq(s, dot + 1, Len(s)), Letters)

\* for _, field := range fields { if ev.IsValidEmail(field) { return true } }
\* return false
HasValidEmailFirstOnly(fields) == fields # <<>> /\ IsValidEmail(fields[1])
RECURSIVE HasValidEmailFrom(_, _)
HasValidEmailFrom(fields, i) ==
    IF i > Len(fields) THEN FALSE
    ELSE IF IsValidEmail(fields[i]) THEN TRUE
    ELSE HasValidEmailFrom(fields, i + 1)
HasValidEmail(fields) == HasValidEmailFrom(fields, 1)

\* ------------------------------------------------------------- CSV content
\* A file is a sequence of lines.  A line is a sequence of fields, the empty
\* sequence for an empty line, or BadLine for a line the csv.Reader cannot
\* parse (malformed quoting); no field of a parsed line is "bad-quote".
BadLine == << <<"bad-quote">> >>

HasEmailColumn == <<"h", "a", "s", "_", "e", "m", "a", "i", "l">>
TrueText == <<"t", "r", "u", "e">>
FalseText == <<"f", "a", "l", "s", "e">>

\* fmt.Sprintf("%t", b)
FormatBool(b) == IF b THEN TrueText ELSE FalseText

fName == <<"n">>
fMail == <<"a", "@", "b", ".", "c", "o">>
fNoTld == <<"a", "@", "b">>
fSpace == <<" ">>

FileGood == << <<fName, fName>>, <<fName, fMail>>, <<>>, <<fName, fNoTld>> >>
FileBadQuote == << <<fName, fName>>, BadLine >>
Files == {FileGood, FileBadQuote}
FileNames == {"a.csv"}

\* "Skip empty rows" test of ProcessCSV
IsBlankRecord(record) ==
    Len(record) = 0 \/ (Len(record) = 1 /\ TrimSpace(record[1]) = <<>>)

\* the record ProcessCSV writes for a non-blank record
AugmentRecordNoHeader(record, rowNum) ==
    Append(record, FormatBool(HasValidEmail(record)))
AugmentRecord(record, rowNum) ==
    IF rowNum = 0
    THEN Append(record, HasEmailColumn)
    ELSE Append(record, FormatBool(HasValidEmail(record)))

ReadErrSwallowed(rowNum, why) == ""
ReadErr(rowNum, why) ==
    "failed to read CSV row " \o ToString(rowNum) \o ": " \o why
WriteErr(rowNum) ==
    "failed to write CSV row " \o ToString(rowNum) \o ": EIO"

\* The read loop of ProcessCSV followed by its deferred writer.Flush().
\*   lines   the source, from line i on
\*   nf      fields per record fixed by the first record (0: not yet)
\*   rowNum  the row counter
\*   buf     rows held in the writer's buffer
\*   disk    rows that reached the destination file
\*   okw     writes to the destination that still succeed
\* Result: err ("" is nil), out (the destination's rows), rows (rowNum),
\* lost (rows handed to the writer that never reached the destination),
\* fault (what went wrong: "read", "write", "flush", or "none").
RECURSIVE ProcessLoop(_, _, _, _, _, _, _)
ProcessLoop(lines, i, nf, rowNum, buf, disk, okw) ==
    LET Flushed == IF buf = <<>> THEN [out |-> disk, lost |-> 0]
                   ELSE IF okw > 0 THEN [out |-> disk \o buf, lost |-> 0]
                   ELSE [out |-> disk, lost |-> Len(buf)]
        Return(e) == [err |-> e, out |-> Flushed.out, rows |-> rowNum,
                      lost |-> Flushed.lost,
                      fault |-> IF e # "" THEN "read"
                                ELSE IF Flushed.lost > 0 THEN "flush" ELSE "none"]
    IN  IF i > Len(lines) THEN Return("")
        ELSE IF lines[i] = <<>>
             THEN ProcessLoop(lines, i + 1, nf, rowNum, buf, disk, okw)
        ELSE IF lines[i] = BadLine THEN Return(ReadErr(rowNum, "parse error"))
        ELSE IF nf # 0 /\ Len(lines[i]) # nf
             THEN Return(ReadErr(rowNum, "wrong number of fields"))
        ELSE IF IsBlankRecord(lines[i])
             THEN ProcessLoop(lines, i + 1, Len(lines[i]), rowNum, buf, disk, okw)
        ELSE LET rec == AugmentRecord(lines[i], rowNum)
             IN  IF Len(buf) < BufCap
                 THEN ProcessLoop(lines, i + 1, Len(lines[i]), rowNum + 1,
                                  Append(buf, rec), disk, okw)
                 ELSE IF okw > 0
                 THEN ProcessLoop(lines, i + 1, Len(lines[i]), rowNum + 1,
                                  <<rec>>, disk \o buf, okw - 1)
                 ELSE [err |-> WriteErr(rowNum), out |-> disk, rows |-> rowNum,
                       lost |-> Len(buf) + 1, fault |-> "write"]

\* the part of ProcessCSV that runs once both files are open
TransformRows(lines, okw) == ProcessLoop(lines, 1, 0, 0, <<>>, <<>>, okw)

\* enough successful writes for any file of the model
NoWriteFailure ==
    LET longest == CHOOSE f \in Files : \A g \in Files : Len(g) <= Len(f)
    IN  Len(longest)

\* ---------------------------------------------------------------- JobStore
\* jobs is the map of the store: a function whose domain is the set of ids
\* that have a record.
NewJob(id, now) ==
    [ID |-> id, Status |-> JobStatusProcessing, CreatedAt |-> now,
     FilePath |-> "", Error |-> ""]

CreateJobIfAbsent(js, id, now) ==
    [x \in DOMAIN js \cup {id} |-> IF x \in DOMAIN js THEN js[x] ELSE NewJob(id, now)]
CreateJobAlone(js, id, now) == [x \in {id} |-> NewJob(id, now)]
CreateJob(js, id, now) ==
    [x \in DOMAIN js \cup {id} |-> IF x = id THEN NewJob(id, now) ELSE js[x]]

\* (job, exists); the job of a missing id is the nil pointer
NilJob == [ID |-> 0, Status |-> "", CreatedAt |-> 0, FilePath |-> "", Error |-> ""]
GetJobMissing(js, id) == <<NilJob, FALSE>>
GetJobAny(js, id) ==
    IF DOMAIN js # {} THEN <<js[CHOOSE x \in DOMAIN js : TRUE], TRUE>>
    ELSE <<NilJob, FALSE>>
GetJob(js, id) ==
    IF id \in DOMAIN js THEN <<js[id], TRUE>> ELSE <<NilJob, FALSE>>

\* job.Status = status
SetStatusUpsert(js, id, status) ==
    [x \in DOMAIN js \cup {id} |->
        IF x # id THEN js[x]
        ELSE IF id \in DOMAIN js THEN [js[id] EXCEPT !.Status = status]
        ELSE [NewJob(id, 0) EXCEPT !.Status = status]]
SetStatusEverywhere(js, id, status) ==
    IF id \in DOMAIN js THEN [x \in DOMAIN js |-> [js[x] EXCEPT !.Status = status]]
    ELSE js
SetStatus(js, id, status) ==
    IF id \in DOMAIN js THEN [js EXCEPT ![id].Status = status] ELSE js

\* the two conditional assignments to job.FilePath and job.Error
SetFieldsClearing(js, id, filePath, errorMsg) ==
    IF id \in DOMAIN js
    THEN [js EXCEPT ![id].FilePath = filePath, ![id].Error = errorMsg]
    ELSE js
SetFieldsSwapped(js, id, filePath, errorMsg) ==
    IF id \in DOMAIN js
    THEN [js EXCEPT ![id].FilePath = IF errorMsg # "" THEN errorMsg ELSE @,
                    ![id].Error = IF filePath # "" THEN filePath ELSE @]
    ELSE js
SetFields(js, id, filePath, errorMsg) ==
    IF id \in DOMAIN js
    THEN [js EXCEPT ![id].FilePath = IF filePath # "" THEN filePath ELSE @,
                    ![id].Error = IF errorMsg # "" THEN errorMsg ELSE @]
    ELSE js

UpdateJobStatusEvicting(js, id, status, filePath, errorMsg) ==
    IF status = JobStatusFailed THEN [x \in DOMAIN js \ {id} |-> js[x]]
    ELSE SetFields(SetStatus(js, id, status), id, filePath, errorMsg)
UpdateJobStatus(js, id, status, filePath, errorMsg) ==
    SetFields(SetStatus(js, id, status), id, filePath, errorMsg)

\* ------------------------------------------------------------ CSVProcessor
UploadsDir == "uploads"
UploadFileName(jobID, filename) == "upload_" \o ToString(jobID) \o "_" \o filename
GetProcessedFilePath(jobID) ==
    UploadsDir \o "/" \o "processed_" \o ToString(jobID) \o ".csv"

\* the file system: a function from the paths that exist to their content
WriteFile(fs, path, content) ==
    [p \in DOMAIN fs \cup {path} |-> IF p = path THEN content ELSE fs[p]]

\* SaveUploadedFile: (filePath, err, the file system afterwards)
SaveUploadedFile(fs, fileData, filename, ok) ==
    IF ok
    THEN [path |-> UploadsDir \o "/" \o filename, err |-> "",
          files |-> WriteFile(fs, UploadsDir \o "/" \o filename, fileData)]
    ELSE [path |-> "", err |-> "failed to write uploaded file: EIO", files |-> fs]

\* ProcessCSV on the file system fs.  openOk, createOk: whether os.Open and
\* os.Create succeed (os.Open also fails when the source does not exist);
\* okw: the writes to the destination that succeed.
ProcessCSVCreateFirst(fs, inputPath, outputPath, openOk, createOk, okw) ==
    IF ~createOk
    THEN [err |-> "failed to create output file: EIO", files |-> fs,
          fault |-> "create"]
    ELSE IF ~(openOk /\ inputPath \in DOMAIN fs)
    THEN [err |-> "failed to open input file: EIO",
          files |-> WriteFile(fs, outputPath, <<>>), fault |-> "open"]
    ELSE LET res == TransformRows(fs[inputPath], okw)
         IN  [err |-> res.err, files |-> WriteFile(fs, outputPath, res.out),
              fault |-> res.fault]
ProcessCSV(fs, inputPath, outputPath, openOk, createOk, okw) ==
    IF ~(openOk /\ inputPath \in DOMAIN fs)
    THEN [err |-> "failed to open input file: EIO", files |-> fs, fault |-> "open"]
    ELSE IF ~createOk
    THEN [err |-> "failed to create output file: EIO", files |-> fs,
          fault |-> "create"]
    ELSE LET res == TransformRows(fs[inputPath], okw)
         IN  [err |-> res.err, files |-> WriteFile(fs, outputPath, res.out),
              fault |-> res.fault]

\* ------------------------------------------- UploadHandler's validation
\* Content types and file names are sequences of characters.
TextCsv == <<"t", "e", "x", "t", "/", "c", "s", "v">>
TextCsvCharset == TextCsv \o <<";", "u">>
TextPlain == <<"t", "e", "x", "t", "/", "p", "l", "a", "i", "n">>
DotCsv == <<".", "c", "s", "v">>

\* strings.Contains(s, substr)
Contains(s, substr) ==
    \E i \in 1..(Len(s) - Len(substr) + 1) :
        SubSeq(s, i, i + Len(substr) - 1) = substr

\* strings.HasSuffix(s, suffix)
HasSuffix(s, suffix) ==
    /\ Len(s) >= Len(suffix)
    /\ SubSeq(s, Len(s) - Len(suffix) + 1, Len(s)) = suffix

\* strings.ToLower(s), on the letters the model's names are written with
ToLowerChar(c) ==
    CASE c = "A" -> "a" [] c = "C" -> "c" [] c = "S" -> "s" [] c = "V" -> "v"
      [] OTHER -> c
ToLower(s) == [i \in 1..Len(s) |-> ToLowerChar(s[i])]

\* the Go string of a sequence of characters
RECURSIVE Str(_)
Str(s) == IF s = <<>> THEN "" ELSE Head(s) \o Str(Tail(s))

\* "Validate file type": the negation of the condition that rejects
IsCSVUploadBoth(contentType, filename) ==
    Contains(contentType, TextCsv) /\ HasSuffix(ToLower(filename), DotCsv)
IsCSVUploadCaseSensitive(contentType, filename) ==
    Contains(contentType, TextCsv) \/ HasSuffix(filename, DotCsv)
IsCSVUpload(contentType, filename) ==
    Contains(contentType, TextCsv) \/ HasSuffix(ToLower(filename), DotCsv)

\* The requests of the model.  parseOk: ParseMultipartForm succeeds;
\* hasFile: the form has a "file" field; readOk: io.ReadAll succeeds.
ContentTypes == {TextCsvCharset, TextPlain}
UploadNames == {<<"A", ".", "C", "S", "V">>, <<"a", ".", "t", "x", "t">>}
Requests ==
    {[parseOk |-> FALSE, hasFile |-> FALSE, contentType |-> <<>>,
      filename |-> <<>>, readOk |-> TRUE],
     [parseOk |-> TRUE, hasFile |-> FALSE, contentType |-> <<>>,
      filename |-> <<>>, readOk |-> TRUE]}
    \cup [parseOk : {TRUE}, hasFile : {TRUE}, contentType : ContentTypes,
          filename : UploadNames, readOk : BOOLEAN]

\* The checks of UploadHandler before it generates the job id, in their
\* order: the status code and the message of the error response, or code 0
\* when the request passes them all.
UploadVerdict(r) ==
    IF ~r.parseOk THEN [code |-> 400, error |-> "Failed to parse multipart form"]
    ELSE IF ~r.hasFile THEN [code |-> 400, error |-> "No file provided"]
    ELSE IF ~IsCSVUpload(r.contentType, r.filename)
    THEN [code |-> 400, error |-> "File must be a CSV file"]
    ELSE IF ~r.readOk THEN [code |-> 500, error |-> "Failed to read file"]
    ELSE [code |-> 0, error |-> ""]

\* ------------------------------------------------------------------- state
VARIABLES
    jobs,     \* JobStore.jobs
    mu,       \* JobStore.mu: [w: the holder of the write lock, r: the readers]
    clock,    \* time.Now(), counted in CreateJob calls
    files,    \* the file system under uploads/
    up,       \* UploadHandler invocations, by the job id they generate
    worker,   \* processFileAsync goroutines, by job id
    dl,       \* DownloadHandler invocations, by slot
    lastOp,   \* the registry operation of the last step (direct-call runs)
    ctx,      \* goroutines that call the store directly, by index
    csv,      \* a direct call of ProcessCSV: its source and its outcome
    call,     \* calls of ProcessCSV that run at the same time, by index
    mail,     \* a direct call of IsValidEmail: its argument and its result
    rowCall,  \* a direct call of HasValidEmail: its argument and its result
    req       \* the upload request UploadHandler turned down last, and its response

vars ==
    <<jobs, mu, clock, files, up, worker, dl, lastOp, ctx, csv, call, mail, rowCall,
      req>>

JobIds == 1..MaxJobs
\* an id no upload ever returned
UnknownId == 0
DlSlots == 1..MaxDownloads

NoHolder == <<"none", 0>>
NoOp == [op |-> "none", id |-> 0, found |-> FALSE, job |-> 0]
Unlocked == [w |-> NoHolder, r |-> {}]
NoData == <<>>
\* id: the job id of an upload response
NoResp ==
    [code |-> 0, error |-> "", body |-> <<>>, file |-> FALSE, id |-> UnknownId]

IdleUpload == [pc |-> "idle", data |-> NoData, filename |-> "", resp |-> NoResp]
NoWorker ==
    [pc |-> "none", data |-> NoData, filename |-> "", uploadPath |-> "",
     status |-> "", filePath |-> "", errorMsg |-> "", fault |-> "none", calls |-> 0]
\* status, field: what the handler read from the job (ghost of its locals)
IdleDownload ==
    [pc |-> "idle", id |-> UnknownId, status |-> "", field |-> "", resp |-> NoResp]

\* a goroutine of the store's concurrency test before its first call;
\* found, read: what it got from GetJob and from the job's Status
CtxIds == 1..MaxCtx
NewCtx == [pc |-> "start", snap |-> <<>>, created |-> 0, found |-> FALSE,
           read |-> ""]

\* no direct call of ProcessCSV; openOk, createOk, okw: what the call met;
\* prior: whether a file was at the destination before the call
NoCsv == [pc |-> "none", input |-> <<>>, err |-> "", out |-> <<>>,
          made |-> FALSE, fault |-> "none",
          openOk |-> FALSE, createOk |-> FALSE, okw |-> 0, prior |-> FALSE]

\* the calls of ProcessCSV made at the same time on one CSVProcessor, and
\* a call that has not started
Runs == {1, 2}
NewRun == [pc |-> "start", err |-> "", fault |-> "none",
           openOk |-> FALSE, createOk |-> FALSE, okw |-> 0]

\* no direct call of IsValidEmail
NoMail == [pc |-> "none", s |-> <<>>, valid |-> FALSE]

\* no direct call of HasValidEmail
NoRow == [pc |-> "none", fields |-> <<>>, has |-> FALSE]

\* no upload turned down yet; r: the request, resp: the response to it
NoRequest == [parseOk |-> TRUE, hasFile |-> FALSE, contentType |-> <<>>,
              filename |-> <<>>, readOk |-> TRUE]
NoReq == [pc |-> "none", r |-> NoRequest, resp |-> NoResp]

Init ==
    /\ jobs = <<>>
    /\ mu = Unlocked
    /\ clock = 0
    /\ files = <<>>
    /\ up = [j \in JobIds |-> IdleUpload]
    /\ worker = [j \in JobIds |-> NoWorker]
    /\ dl = [d \in DlSlots |-> IdleDownload]
    /\ lastOp = NoOp
    /\ ctx = [c \in CtxIds |-> NewCtx]
    /\ csv = NoCsv
    /\ call = [p \in Runs |-> NewRun]
    /\ mail = NoMail
    /\ rowCall = NoRow
    /\ req = NoReq

\* sync.RWMutex.  A worker at "update" is inside Lock(), waiting for the
\* readers to leave; RLock blocks while a writer holds the lock or waits.
PendingWriters == {j \in DOMAIN worker : worker[j].pc = "update"}
CanLockAlways == TRUE
CanLockIgnoringReaders == mu.w = NoHolder
CanLock == mu.w = NoHolder /\ mu.r = {}
CanRLock == mu.w = NoHolder /\ PendingWriters = {}
Lock(m, who) == [m EXCEPT !.w = who]
UnlockForgotten(m) == m
Unlock(m) == [m EXCEPT !.w = NoHolder]
RLock(m, d) == [m EXCEPT !.r = @ \cup {d}]
RUnlockForgotten(m, d) == m
RUnlock(m, d) == [m EXCEPT !.r = @ \ {d}]

\* ----------------------------------------------------------- UploadHandler
\* uuid.New(): an id never used before (the smallest, ids being symmetric)
FreshIdAfterWorkers(j) ==
    /\ up[j].pc = "idle"
    /\ \A k \in JobIds : k < j => (up[k].pc # "idle" /\ worker[k].pc = "done")
FreshId(j) == up[j].pc = "idle" /\ \A k \in JobIds : k < j => up[k].pc # "idle"

\* an accepted upload reaches CreateJob and takes the write lock
UploadCreateLock(j, data, filename) ==
    /\ FreshId(j)
    /\ CanLock
    /\ mu' = Lock(mu, <<"upload", j>>)
    /\ up' = [up EXCEPT ![j] = [@ EXCEPT !.pc = "create", !.data = data,
                                         !.filename = filename]]
    /\ UNCHANGED <<jobs, clock, files, worker, dl, lastOp, ctx, csv, call,
                 mail, rowCall, req>>

\* CreateJob's body and its deferred Unlock
UploadCreateJob(j) ==
    /\ up[j].pc = "create"
    /\ jobs' = CreateJob(jobs, j, clock + 1)
    /\ clock' = clock + 1
    /\ mu' = Unlock(mu)
    /\ up' = [up EXCEPT ![j].pc = "go"]
    /\ UNCHANGED <<files, worker, dl, lastOp, ctx, csv, call, mail, rowCall, req>>

\* go app.processFileAsync(jobID, fileData, handler.Filename), and the
\* response that carries the id
UploadGo(j) ==
    /\ up[j].pc = "go"
    /\ worker' = [worker EXCEPT ![j] = [NoWorker EXCEPT !.pc = "save",
                                          !.data = up[j].data,
                                          !.filename = up[j].filename]]
    /\ up' = [up EXCEPT ![j].pc = "done",
                        ![j].resp = [NoResp EXCEPT !.code = 200, !.id = j]]
    /\ UNCHANGED <<jobs, mu, clock, files, dl, lastOp, ctx, csv, call, mail,
                 rowCall, req>>

\* -------------------------------------------------------- processFileAsync
\* the worker calls UpdateJobStatus(jobID, JobStatusFailed, "", msg)
FailSilently(w, msg, fault) ==
    [w EXCEPT !.pc = "done", !.status = JobStatusFailed, !.filePath = "",
              !.errorMsg = msg, !.fault = fault]
Fail(w, msg, fault) ==
    [w EXCEPT !.pc = "update", !.status = JobStatusFailed, !.filePath = "",
              !.errorMsg = msg, !.fault = fault]

\* what processFileAsync does with the result r of ProcessCSV
AfterProcessCSVIgnoringErr(w, r, processedPath) ==
    [w EXCEPT !.pc = "update", !.status = JobStatusCompleted,
              !.filePath = processedPath, !.errorMsg = "", !.fault = r.fault]
AfterProcessCSV(w, r, processedPath) ==
    IF r.err # ""
    THEN Fail(w, "Failed to process CSV: " \o r.err, r.fault)
    ELSE [w EXCEPT !.pc = "update", !.status = JobStatusCompleted,
                   !.filePath = processedPath, !.errorMsg = "", !.fault = r.fault]

\* SaveUploadedFile(fileData, "upload_<jobID>_<filename>")
WorkerSave(j, ok) ==
    /\ worker[j].pc = "save"
    /\ LET r == SaveUploadedFile(files, worker[j].data,
                                 UploadFileName(j, worker[j].filename), ok)
       IN  /\ files' = r.files
           /\ worker' = [worker EXCEPT ![j] =
                 IF r.err # ""
                 THEN Fail(@, "Failed to save uploaded file: " \o r.err, "save")
                 ELSE [@ EXCEPT !.pc = "process", !.uploadPath = r.path]]
    /\ UNCHANGED <<jobs, mu, clock, up, dl, lastOp, ctx, csv, call, mail, rowCall,
                 req>>

\* ProcessCSV(uploadPath, processedPath) and the choice of the update
WorkerProcessCSV(j, openOk, createOk, okw) ==
    /\ worker[j].pc = "process"
    /\ LET processedPath == GetProcessedFilePath(j)
           r == ProcessCSV(files, worker[j].uploadPath, processedPath,
                           openOk, createOk, okw)
       IN  /\ files' = r.files
           /\ worker' = [worker EXCEPT ![j] = AfterProcessCSV(@, r, processedPath)]
    /\ UNCHANGED <<jobs, mu, clock, up, dl, lastOp, ctx, csv, call, mail, rowCall,
                 req>>

\* UpdateJobStatus: js.mu.Lock() returns
WorkerUpdateLock(j) ==
    /\ worker[j].pc = "update"
    /\ CanLock
    /\ mu' = Lock(mu, <<"worker", j>>)
    /\ worker' = [worker EXCEPT ![j].pc = "status", ![j].calls = @ + 1]
    /\ UNCHANGED <<jobs, clock, files, up, dl, lastOp, ctx, csv, call, mail,
                 rowCall, req>>

\* UpdateJobStatus: job.Status = status
WorkerUpdateStatus(j) ==
    /\ worker[j].pc = "status"
    /\ jobs' = SetStatus(jobs, j, worker[j].status)
    /\ worker' = [worker EXCEPT ![j].pc = "fields"]
    /\ UNCHANGED <<mu, clock, files, up, dl, lastOp, ctx, csv, call, mail, rowCall,
                 req>>

\* UpdateJobStatus: job.FilePath, job.Error, and the deferred Unlock
WorkerUpdateFields(j) ==
    /\ worker[j].pc = "fields"
    /\ jobs' = SetFields(jobs, j, worker[j].filePath, worker[j].errorMsg)
    /\ mu' = Unlock(mu)
    /\ worker' = [worker EXCEPT ![j].pc = "done"]
    /\ UNCHANGED <<clock, files, up, dl, lastOp, ctx, csv, call, mail, rowCall,
                 req>>

\* --------------------------------------------------------- DownloadHandler
ErrorResponse(code, message) == [NoResp EXCEPT !.code = code, !.error = message]

\* serveFile
ServeFile(fs, filePath) ==
    IF filePath \in DOMAIN fs
    THEN [NoResp EXCEPT !.code = 200, !.body = fs[filePath], !.file = TRUE]
    ELSE ErrorResponse(500, "Failed to open processed file")

\* a request for id arrives at a slot whose last response has been sent;
\* GetJob: js.mu.RLock()
DownloadRLock(d, id) ==
    /\ dl[d].pc \in {"idle", "done"}
    /\ CanRLock
    /\ mu' = RLock(mu, d)
    /\ dl' = [dl EXCEPT ![d] = [IdleDownload EXCEPT !.pc = "get", !.id = id]]
    /\ UNCHANGED <<jobs, clock, files, up, worker, lastOp, ctx, csv, call,
                 mail, rowCall, req>>

\* GetJob: the lookup and the deferred RUnlock; the handler keeps the pointer
DownloadGetJobConsuming(d) ==
    /\ dl[d].pc = "get"
    /\ mu' = RUnlock(mu, d)
    /\ jobs' = [x \in DOMAIN jobs \ {dl[d].id} |-> jobs[x]]
    /\ dl' = [dl EXCEPT ![d] = [@ EXCEPT !.pc = "done",
                                        !.resp = ErrorResponse(400, "Invalid job ID")]]
    /\ UNCHANGED <<clock, files, up, worker, lastOp, ctx, csv, call, mail, rowCall,
                 req>>
DownloadGetJob(d) ==
    /\ dl[d].pc = "get"
    /\ mu' = RUnlock(mu, d)
    /\ dl' = [dl EXCEPT ![d] =
          IF GetJob(jobs, dl[d].id)[2]
          THEN [@ EXCEPT !.pc = "switch"]
          ELSE [@ EXCEPT !.pc = "done",
                         !.resp = ErrorResponse(400, "Invalid job ID")]]
    /\ UNCHANGED <<jobs, clock, files, up, worker, lastOp, ctx, csv, call,
                 mail, rowCall, req>>

\* A field of the job read through the pointer, without the lock, while
\* UpdateJobStatus assigns to it (racing): a data race on a string, which is
\* a pointer and a length.  The read gives the value the field has, the
\* value being written, or the pointer of one with the length of the other,
\* a string that is neither.
TornString == "<torn>"
RacyRead(current, written, racing) ==
    IF racing THEN {current, written, TornString} ELSE {current}

\* switch job.Status, read through the pointer without the lock
DownloadSwitch(d) ==
    /\ dl[d].pc = "switch"
    /\ \E status \in RacyRead(jobs[dl[d].id].Status, worker[dl[d].id].status,
                              worker[dl[d].id].pc = "status") :
           dl' = [dl EXCEPT ![d] =
             IF status = JobStatusProcessing
             THEN [@ EXCEPT !.pc = "done", !.status = status,
                            !.resp = [NoResp EXCEPT !.code = 423]]
             ELSE IF status = JobStatusFailed
             THEN [@ EXCEPT !.pc = "error", !.status = status]
             ELSE IF status = JobStatusCompleted
             THEN [@ EXCEPT !.pc = "serve", !.status = status]
             ELSE [@ EXCEPT !.pc = "done", !.status = status,
                            !.resp = ErrorResponse(500, "Unknown job status")]]
    /\ UNCHANGED <<jobs, mu, clock, files, up, worker, lastOp, ctx, csv, call,
                 mail, rowCall, req>>

\* case JobStatusFailed: sendErrorResponse(w, 500, job.Error)
DownloadSendError(d) ==
    /\ dl[d].pc = "error"
    /\ \E message \in RacyRead(jobs[dl[d].id].Error, worker[dl[d].id].errorMsg,
                               /\ worker[dl[d].id].pc = "fields"
                               /\ worker[dl[d].id].errorMsg # "") :
          dl' = [dl EXCEPT ![d].pc = "done",
                           ![d].field = message,
                           ![d].resp = ErrorResponse(500, message)]
    /\ UNCHANGED <<jobs, mu, clock, files, up, worker, lastOp, ctx, csv, call,
                 mail, rowCall, req>>

\* case JobStatusCompleted: serveFile(w, job.FilePath)
DownloadServeFile(d) ==
    /\ dl[d].pc = "serve"
    /\ \E filePath \in RacyRead(jobs[dl[d].id].FilePath, worker[dl[d].id].filePath,
                                /\ worker[dl[d].id].pc = "fields"
                                /\ worker[dl[d].id].filePath # "") :
          dl' = [dl EXCEPT ![d].pc = "done",
                           ![d].field = filePath,
                           ![d].resp = ServeFile(files, filePath)]
    /\ UNCHANGED <<jobs, mu, clock, files, up, worker, lastOp, ctx, csv, call,
                 mail, rowCall, req>>

\* ----------------------------------------------------------- specification
UploadStep ==
    \E j \in JobIds :
        \/ \E data \in Files, filename \in FileNames :
              UploadCreateLock(j, data, filename)
        \/ UploadCreateJob(j)
        \/ UploadGo(j)

WorkerStep(j) ==
    \/ \E ok \in BOOLEAN : WorkerSave(j, ok)
    \/ \E openOk \in BOOLEAN, createOk \in BOOLEAN, okw \in 0..NoWriteFailure :
          WorkerProcessCSV(j, openOk, createOk, okw)
    \/ WorkerUpdateLock(j)
    \/ WorkerUpdateStatus(j)
    \/ WorkerUpdateFields(j)

DownloadStep ==
    \E d \in DlSlots :
        \/ \E id \in JobIds \cup {UnknownId} : DownloadRLock(d, id)
        \/ DownloadGetJob(d)
        \/ DownloadSwitch(d)
        \/ DownloadSendError(d)
        \/ DownloadServeFile(d)

Next ==
    \/ UploadStep
    \/ \E j \in JobIds : WorkerStep(j)
    \/ DownloadStep

Spec == Init /\ [][Next]_vars

\* The goroutines of the handlers and of the workers are scheduled fairly,
\* so each takes its next step.  New readers wait behind a blocked writer
\* (CanRLock), and among the goroutines blocked in Lock the mutex hands the
\* lock over in turn, which is strong fairness of the Lock step.
Fairness ==
    /\ \A j \in JobIds :
          /\ WF_vars(UploadCreateJob(j))
          /\ WF_vars(UploadGo(j))
          /\ WF_vars(\E ok \in BOOLEAN : WorkerSave(j, ok))
          /\ WF_vars(\E openOk \in BOOLEAN, createOk \in BOOLEAN,
                        okw \in 0..NoWriteFailure :
                            WorkerProcessCSV(j, openOk, createOk, okw))
          /\ SF_vars(WorkerUpdateLock(j))
          /\ WF_vars(WorkerUpdateStatus(j))
          /\ WF_vars(WorkerUpdateFields(j))
    /\ \A d \in DlSlots : WF_vars(DownloadGetJob(d))

SpecFair == Spec /\ Fairness

\* --------------------------------------------- uploads that are turned down
\* Spec follows the uploads that pass the checks of UploadHandler.  The runs
\* below add the requests that do not, and draw the accepted ones from all
\* the requests that pass; they follow the uploads and their workers.
\* sendErrorResponse(w, code, message); return
UploadReject(r) ==
    /\ UploadVerdict(r).code # 0
    /\ req' = [pc |-> "done", r |-> r,
               resp |-> ErrorResponse(UploadVerdict(r).code, UploadVerdict(r).error)]
    /\ UNCHANGED <<jobs, mu, clock, files, up, worker, dl, lastOp, ctx, csv, call,
                 mail, rowCall>>

\* a request that passes the checks reaches CreateJob
UploadAccept(j, data, r) ==
    /\ UploadVerdict(r).code = 0
    /\ UploadCreateLock(j, data, Str(r.filename))

NextUpload ==
    \/ \E r \in Requests : UploadReject(r)
    \/ \E j \in JobIds :
          \/ \E data \in Files, r \in Requests : UploadAccept(j, data, r)
          \/ UploadCreateJob(j)
          \/ UploadGo(j)
    \/ \E j \in JobIds : WorkerStep(j)

SpecUpload == Init /\ [][NextUpload]_vars

\* ------------------------------------------- the registry, called directly
\* Runs in which CreateJob, GetJob and UpdateJobStatus are called one after
\* the other with any arguments (as the store's unit tests do).
MaxCalls == 2
RegIds == {1, 2}
StatusArgs == {JobStatusProcessing, JobStatusCompleted, JobStatusFailed}
PathArgs == {"", "/p"}
ErrArgs == {"", "boom"}

RegCreateJob(id) ==
    /\ clock < MaxCalls
    /\ jobs' = CreateJob(jobs, id, clock + 1)
    /\ clock' = clock + 1
    /\ lastOp' = [op |-> "CreateJob", id |-> id, found |-> TRUE, job |-> jobs'[id]]
    /\ UNCHANGED <<mu, files, up, worker, dl, ctx, csv, call, mail, rowCall, req>>

RegGetJob(id) ==
    /\ lastOp' = [op |-> "GetJob", id |-> id, found |-> GetJob(jobs, id)[2],
                  job |-> GetJob(jobs, id)[1]]
    /\ UNCHANGED <<jobs, clock, mu, files, up, worker, dl, ctx, csv, call,
                 mail, rowCall, req>>

RegUpdateJobStatus(id, status, filePath, errorMsg) ==
    /\ jobs' = UpdateJobStatus(jobs, id, status, filePath, errorMsg)
    /\ lastOp' = [op |-> "UpdateJobStatus", id |-> id, found |-> id \in DOMAIN jobs,
                  job |-> [Status |-> status, FilePath |-> filePath,
                           Error |-> errorMsg]]
    /\ UNCHANGED <<clock, mu, files, up, worker, dl, ctx, csv, call, mail, rowCall,
                 req>>

NextReg ==
    \E id \in RegIds :
        \/ RegCreateJob(id)
        \/ RegGetJob(id)
        \/ \E status \in StatusArgs, filePath \in PathArgs, errorMsg \in ErrArgs :
              RegUpdateJobStatus(id, status, filePath, errorMsg)

SpecReg == Init /\ [][NextReg]_vars

\* ------------------------------------- the store, called from goroutines
\* Runs in which MaxCtx goroutines each call CreateJob, UpdateJobStatus
\* (completed, with a path) and GetJob for an id of their own, and then read
\* the Status of the job GetJob returned (the store's concurrency test).  A
\* goroutine at "start" or "update" has not entered Lock or waits in it.
TestPath == "/test/path"
CtxHolder(c) == <<"ctx", c>>

\* CreateJob: js.mu.Lock() returns
CtxCreateLock(c) ==
    /\ ctx[c].pc = "start"
    /\ CanLock
    /\ mu' = Lock(mu, CtxHolder(c))
    /\ ctx' = [ctx EXCEPT ![c].pc = "table"]
    /\ UNCHANGED <<jobs, clock, files, up, worker, dl, lastOp, csv, call, mail,
                 rowCall, req>>

\* CreateJob: js.jobs[id] = job starts; a map assignment is not atomic, it
\* works on the table it found
CtxCreateTable(c) ==
    /\ ctx[c].pc = "table"
    /\ ctx' = [ctx EXCEPT ![c].pc = "insert", ![c].snap = jobs]
    /\ UNCHANGED <<jobs, mu, clock, files, up, worker, dl, lastOp, csv, call,
                 mail, rowCall, req>>

\* CreateJob: the assignment ends, the deferred Unlock, return job
CtxCreateInsert(c) ==
    /\ ctx[c].pc = "insert"
    /\ jobs' = CreateJob(ctx[c].snap, c, clock + 1)
    /\ clock' = clock + 1
    /\ mu' = Unlock(mu)
    /\ ctx' = [ctx EXCEPT ![c].pc = "update", ![c].snap = <<>>,
                          ![c].created = jobs'[c].ID]
    /\ UNCHANGED <<files, up, worker, dl, lastOp, csv, call, mail, rowCall, req>>

\* UpdateJobStatus: js.mu.Lock() returns
CtxUpdateLock(c) ==
    /\ ctx[c].pc = "update"
    /\ CanLock
    /\ mu' = Lock(mu, CtxHolder(c))
    /\ ctx' = [ctx EXCEPT ![c].pc = "status"]
    /\ UNCHANGED <<jobs, clock, files, up, worker, dl, lastOp, csv, call, mail,
                 rowCall, req>>

\* UpdateJobStatus: job.Status = status
CtxUpdateStatus(c) ==
    /\ ctx[c].pc = "status"
    /\ jobs' = SetStatus(jobs, c, JobStatusCompleted)
    /\ ctx' = [ctx EXCEPT ![c].pc = "fields"]
    /\ UNCHANGED <<mu, clock, files, up, worker, dl, lastOp, csv, call, mail,
                 rowCall, req>>

\* UpdateJobStatus: job.FilePath, job.Error, and the deferred Unlock
CtxUpdateFields(c) ==
    /\ ctx[c].pc = "fields"
    /\ jobs' = SetFields(jobs, c, TestPath, "")
    /\ mu' = Unlock(mu)
    /\ ctx' = [ctx EXCEPT ![c].pc = "rlock"]
    /\ UNCHANGED <<clock, files, up, worker, dl, lastOp, csv, call, mail, rowCall,
                 req>>

\* GetJob: js.mu.RLock() returns
CtxRLock(c) ==
    /\ ctx[c].pc = "rlock"
    /\ CanRLock
    /\ mu' = RLock(mu, CtxHolder(c))
    /\ ctx' = [ctx EXCEPT ![c].pc = "get"]
    /\ UNCHANGED <<jobs, clock, files, up, worker, dl, lastOp, csv, call, mail,
                 rowCall, req>>

\* GetJob: the lookup and the deferred RUnlock
CtxGetJob(c) ==
    /\ ctx[c].pc = "get"
    /\ mu' = RUnlock(mu, CtxHolder(c))
    /\ ctx' = [ctx EXCEPT ![c].pc = "check", ![c].found = GetJob(jobs, c)[2]]
    /\ UNCHANGED <<jobs, clock, files, up, worker, dl, lastOp, csv, call, mail,
                 rowCall, req>>

\* !exists || retrievedJob.Status != JobStatusCompleted
CtxCheck(c) ==
    /\ ctx[c].pc = "check"
    /\ ctx' = [ctx EXCEPT ![c].pc = "done",
                          ![c].read = IF ctx[c].found /\ c \in DOMAIN jobs
                                      THEN jobs[c].Status ELSE ""]
    /\ UNCHANGED <<jobs, mu, clock, files, up, worker, dl, lastOp, csv, call,
                 mail, rowCall, req>>

NextConc ==
    \E c \in CtxIds :
        \/ CtxCreateLock(c)
        \/ CtxCreateTable(c)
        \/ CtxCreateInsert(c)
        \/ CtxUpdateLock(c)
        \/ CtxUpdateStatus(c)
        \/ CtxUpdateFields(c)
        \/ CtxRLock(c)
        \/ CtxGetJob(c)
        \/ CtxCheck(c)

SpecConc == Init /\ [][NextConc]_vars

\* ------------------------------------------------ ProcessCSV, called directly
\* Runs in which a source file is written and ProcessCSV is called on it (as
\* the processor's unit tests do), for every source of up to MaxLines lines.
CsvLines == {<<>>, <<fSpace>>, <<fName>>, <<fName, fMail>>, <<fName, fNoTld>>,
             BadLine}

RECURSIVE SeqsUpTo(_, _)
SeqsUpTo(S, n) ==
    IF n = 0 THEN {<<>>}
    ELSE LET shorter == SeqsUpTo(S, n - 1)
         IN  shorter \cup {Append(q, x) : q \in shorter, x \in S}

CsvInputs == SeqsUpTo(CsvLines, MaxLines)
CsvInPath == "input.csv"
CsvOutPath == "output.csv"
\* what an earlier run left at the destination
StaleOutput == << <<fName, HasEmailColumn>>, <<fName, FalseText>> >>

InitCSV ==
    /\ jobs = <<>>
    /\ mu = Unlocked
    /\ clock = 0
    /\ up = [j \in JobIds |-> IdleUpload]
    /\ worker = [j \in JobIds |-> NoWorker]
    /\ dl = [d \in DlSlots |-> IdleDownload]
    /\ lastOp = NoOp
    /\ ctx = [c \in CtxIds |-> NewCtx]
    /\ call = [p \in Runs |-> NewRun]
    /\ mail = NoMail
    /\ rowCall = NoRow
    /\ req = NoReq
    /\ \E input \in CsvInputs, prior \in BOOLEAN :
          /\ files = IF prior
                     THEN WriteFile(WriteFile(<<>>, CsvInPath, input),
                                    CsvOutPath, StaleOutput)
                     ELSE WriteFile(<<>>, CsvInPath, input)
          /\ csv = [NoCsv EXCEPT !.pc = "ready", !.input = input, !.prior = prior]

\* processor.ProcessCSV(inputFile, outputFile), and what the test then
\* finds at outputFile
CsvProcessCSV(openOk, createOk, okw) ==
    /\ csv.pc = "ready"
    /\ LET r == ProcessCSV(files, CsvInPath, CsvOutPath, openOk, createOk, okw)
       IN  /\ files' = r.files
           /\ csv' = [csv EXCEPT !.pc = "done", !.err = r.err, !.fault = r.fault,
                                 !.openOk = openOk, !.createOk = createOk,
                                 !.okw = okw,
                                 !.made = CsvOutPath \in DOMAIN r.files,
                                 !.out = IF CsvOutPath \in DOMAIN r.files
                                         THEN r.files[CsvOutPath] ELSE <<>>]
    /\ UNCHANGED <<jobs, mu, clock, up, worker, dl, lastOp, ctx, call, mail,
                 rowCall, req>>

NextCSV ==
    \E openOk \in BOOLEAN, createOk \in BOOLEAN, okw \in 0..MaxLines :
        CsvProcessCSV(openOk, createOk, okw)

SpecCSV == InitCSV /\ [][NextCSV]_vars

\* --------------------------------------- ProcessCSV, called twice at once
\* Runs in which two goroutines call ProcessCSV on one CSVProcessor, on the
\* same source and each with a destination of its own; the steps of a call
\* are os.Open, os.Create, and the read loop with the deferred Flush.
DestPath(p) == "output" \o ToString(p) \o ".csv"

\* os.Open(inputPath)
RunOpen(p, openOk) ==
    /\ call[p].pc = "start"
    /\ call' = [call EXCEPT ![p] =
          IF openOk /\ CsvInPath \in DOMAIN files
          THEN [@ EXCEPT !.pc = "opened", !.openOk = TRUE]
          ELSE [@ EXCEPT !.pc = "done", !.fault = "open",
                         !.err = "failed to open input file: EIO"]]
    /\ UNCHANGED <<jobs, mu, clock, files, up, worker, dl, lastOp, ctx, csv,
                 mail, rowCall, req>>

\* os.Create(outputPath): the destination exists and is empty
RunCreate(p, createOk) ==
    /\ call[p].pc = "opened"
    /\ IF createOk
       THEN /\ files' = WriteFile(files, DestPath(p), <<>>)
            /\ call' = [call EXCEPT ![p].pc = "created", ![p].createOk = TRUE]
       ELSE /\ files' = files
            /\ call' = [call EXCEPT ![p].pc = "done", ![p].fault = "create",
                                    ![p].err = "failed to create output file: EIO"]
    /\ UNCHANGED <<jobs, mu, clock, up, worker, dl, lastOp, ctx, csv, mail,
                 rowCall, req>>

\* the read loop, with rowNum a field the processor keeps between calls
RunTransformKeepingRowNum(p, okw) ==
    /\ call[p].pc = "created"
    /\ LET before == Cardinality({q \in Runs : call[q].pc = "done"})
           res == ProcessLoop(files[CsvInPath], 1, 0, before, <<>>, <<>>, okw)
       IN  /\ files' = WriteFile(files, DestPath(p), res.out)
           /\ call' = [call EXCEPT ![p].pc = "done", ![p].err = res.err,
                                   ![p].fault = res.fault, ![p].okw = okw]
    /\ UNCHANGED <<jobs, mu, clock, up, worker, dl, lastOp, ctx, csv, mail,
                 rowCall, req>>

\* the read loop (rowNum := 0 ... return nil) and the deferred Flush
RunTransform(p, okw) ==
    /\ call[p].pc = "created"
    /\ LET res == TransformRows(files[CsvInPath], okw)
       IN  /\ files' = WriteFile(files, DestPath(p), res.out)
           /\ call' = [call EXCEPT ![p].pc = "done", ![p].err = res.err,
                                   ![p].fault = res.fault, ![p].okw = okw]
    /\ UNCHANGED <<jobs, mu, clock, up, worker, dl, lastOp, ctx, csv, mail,
                 rowCall, req>>

NextTwice ==
    \E p \in Runs :
        \/ \E openOk \in BOOLEAN : RunOpen(p, openOk)
        \/ \E createOk \in BOOLEAN : RunCreate(p, createOk)
        \/ \E okw \in 0..MaxLines : RunTransform(p, okw)

SpecTwice == InitCSV /\ [][NextTwice]_vars

\* ---------------------------------------------- IsValidEmail, called directly
\* Runs in which IsValidEmail is called on one string (as TestIsValidEmail
\* does).  The strings are put together from parts, well-formed and not:
\*   pad  first  middle  last  at  domain  suffix  pad
FirstParts == {<<>>, <<"a">>, <<".">>, <<"_">>}
MidChars == {".", "+", "-", " ", "!"}
LastParts == {<<>>, <<"1">>, <<".">>, <<"%">>}
AtParts == {<<>>, <<"@">>, <<"@", "@">>}
DomainParts == {<<>>, <<"b">>, <<"1">>, <<"b", ".", "b">>, <<"b", "-">>,
                <<"b", "!">>, <<".", "b">>}
SuffixParts == {<<>>, <<".", "c">>, <<".", "c", "o">>, <<".", "c", "1">>}
PadParts == {<< <<>>, <<>> >>, << <<" ">>, <<" ">> >>, << <<"\t">>, <<>> >>}

MailInputs(n) ==
    {pad[1] \o first \o mid \o last \o at \o dom \o suffix \o pad[2] :
        pad \in PadParts, first \in FirstParts, mid \in SeqsUpTo(MidChars, n),
        last \in LastParts, at \in AtParts, dom \in DomainParts,
        suffix \in SuffixParts}

InitMail ==
    /\ jobs = <<>>
    /\ mu = Unlocked
    /\ clock = 0
    /\ files = <<>>
    /\ up = [j \in JobIds |-> IdleUpload]
    /\ worker = [j \in JobIds |-> NoWorker]
    /\ dl = [d \in DlSlots |-> IdleDownload]
    /\ lastOp = NoOp
    /\ ctx = [c \in CtxIds |-> NewCtx]
    /\ csv = NoCsv
    /\ call = [p \in Runs |-> NewRun]
    /\ rowCall = NoRow
    /\ req = NoReq
    /\ \E s \in MailInputs(MaxMid) : mail = [NoMail EXCEPT !.pc = "ready", !.s = s]

\* result := validator.IsValidEmail(tt.email)
MailIsValidEmail ==
    /\ mail.pc = "ready"
    /\ mail' = [mail EXCEPT !.pc = "done", !.valid = IsValidEmail(mail.s)]
    /\ UNCHANGED <<jobs, mu, clock, files, up, worker, dl, lastOp, ctx, csv,
                 call, rowCall, req>>

NextMail == MailIsValidEmail

SpecMail == InitMail /\ [][NextMail]_vars

\* --------------------------------------------- HasValidEmail, called directly
\* Runs in which HasValidEmail is called on one row (as TestHasValidEmail
\* does), for every row of up to MaxFields fields: empty, blank, not an
\* address, an address, an address with spaces around it.
fPadded == <<" ">> \o fMail \o <<" ">>
RowFields == {<<>>, fSpace, fName, fNoTld, fMail, fPadded}

InitRow ==
    /\ jobs = <<>>
    /\ mu = Unlocked
    /\ clock = 0
    /\ files = <<>>
    /\ up = [j \in JobIds |-> IdleUpload]
    /\ worker = [j \in JobIds |-> NoWorker]
    /\ dl = [d \in DlSlots |-> IdleDownload]
    /\ lastOp = NoOp
    /\ ctx = [c \in CtxIds |-> NewCtx]
    /\ csv = NoCsv
    /\ call = [p \in Runs |-> NewRun]
    /\ mail = NoMail
    /\ req = NoReq
    /\ \E fields \in SeqsUpTo(RowFields, MaxFields) :
          rowCall = [NoRow EXCEPT !.pc = "ready", !.fields = fields]

\* result := validator.HasValidEmail(tt.fields)
RowHasValidEmail ==
    /\ rowCall.pc = "ready"
    /\ rowCall' = [rowCall EXCEPT !.pc = "done", !.has = HasValidEmail(rowCall.fields)]
    /\ UNCHANGED <<jobs, mu, clock, files, up, worker, dl, lastOp, ctx, csv, call,
                 mail, req>>

NextRow == RowHasValidEmail

SpecRow == InitRow /\ [][NextRow]_vars

\* ------------------------------------------------------------------ claims
Created(j) == j \in DOMAIN jobs

\* C1: every job is created with status processing by the upload handler,
\* and its record is then changed by one UpdateJobStatus call only, made by
\* the job's own worker, which takes it from processing to completed or
\* failed: a worker makes exactly one call on every path, and no other step
\* changes the record.
C1_MutatedOnceByOwnWorker ==
    /\ [](\A j \in JobIds :
            /\ worker[j].calls <= 1
            /\ worker[j].pc = "done" =>
                  /\ worker[j].calls = 1
                  /\ Created(j)
                  /\ jobs[j].Status \in Terminal)
    /\ [][\A j \in JobIds :
            /\ (~Created(j) /\ j \in DOMAIN jobs') =>
                  /\ up[j].pc = "create"
                  /\ jobs'[j].Status = JobStatusProcessing
            /\ Created(j) =>
                  /\ j \in DOMAIN jobs'
                  /\ jobs'[j] # jobs[j] =>
                        /\ mu.w = <<"worker", j>>
                        /\ worker[j].pc \in {"status", "fields"}
                        /\ worker[j].calls = 1
                  /\ jobs'[j].Status # jobs[j].Status =>
                        /\ jobs[j].Status = JobStatusProcessing
                        /\ jobs'[j].Status \in Terminal]_vars

\* two workers have finished, one on the success path, one on a failure path
C1_Witness ==
    /\ worker[1].pc = "done" /\ jobs[1].Status = JobStatusCompleted
    /\ worker[2].pc = "done" /\ jobs[2].Status = JobStatusFailed

\* C2: a download never uses fields of two different states of a record: it
\* never reads status completed and then an empty FilePath, nor status
\* failed and then an empty Error.
C2_AtomicSnapshot ==
    \A d \in DlSlots :
        (dl[d].pc = "done" /\ dl[d].status \in Terminal) => dl[d].field # ""

Consistent(r) ==
    /\ r.Status = JobStatusProcessing => (r.FilePath = "" /\ r.Error = "")
    /\ r.Status = JobStatusCompleted => (r.FilePath # "" /\ r.Error = "")
    /\ r.Status = JobStatusFailed => (r.Error # "" /\ r.FilePath = "")

Same(r, q) ==
    r.Status = q.Status /\ r.FilePath = q.FilePath /\ r.Error = q.Error

\* C4 as claimed: once a record is completed or failed, no registry
\* operation changes its status, output location or error message.
C4_TerminalAbsorbing ==
    [][\A id \in DOMAIN jobs :
          jobs[id].Status \in Terminal =>
              (id \in DOMAIN jobs' /\ Same(jobs'[id], jobs[id]))]_vars

\* C4 as amended: a completed or failed record stays in the store, and its
\* status, output location and error message change only by a later
\* CreateJob or UpdateJobStatus on the same id; GetJob and every operation
\* on another id leave them as they are, and an UpdateJobStatus never empties
\* a FilePath or Error that is set.
C4_TerminalChangedOnlyByOwnWrite ==
    [][\A id \in DOMAIN jobs :
          jobs[id].Status \in Terminal =>
              /\ id \in DOMAIN jobs'
              /\ ~Same(jobs'[id], jobs[id]) =>
                    /\ lastOp'.op \in {"CreateJob", "UpdateJobStatus"}
                    /\ lastOp'.id = id
              /\ lastOp'.op = "CreateJob" /\ lastOp'.id = id =>
                    jobs'[id].Status = JobStatusProcessing
              /\ lastOp'.op # "CreateJob" =>
                    /\ jobs[id].FilePath # "" => jobs'[id].FilePath # ""
                    /\ jobs[id].Error # "" => jobs'[id].Error # ""]_vars

\* a GetJob has just returned a completed record while another id holds a
\* failed one
C4_Witness ==
    /\ lastOp.op = "GetJob" /\ lastOp.found
    /\ lastOp.job.Status = JobStatusCompleted
    /\ \E id \in DOMAIN jobs : id # lastOp.id /\ jobs[id].Status = JobStatusFailed

\* C5: under fair scheduling every job an upload created reaches completed
\* or failed; a 423 is answered only from a status read as processing while
\* the record is processing, and a record that is completed or failed stays
\* so, so that a download that starts afterwards is not answered 423.
C5_EveryJobTerminates ==
    /\ \A j \in JobIds :
          Created(j) ~> (Created(j) /\ jobs[j].Status \in Terminal
                          /\ worker[j].pc = "done")
    /\ [][\A j \in DOMAIN jobs :
            jobs[j].Status \in Terminal =>
                (j \in DOMAIN jobs' /\ jobs'[j].Status \in Terminal)]_vars
    /\ [][\A d \in DlSlots :
            (dl'[d].resp.code = 423 /\ dl[d] # dl'[d]) =>
                jobs[dl[d].id].Status = JobStatusProcessing]_vars

\* a download of a finished job has been answered, and not with 423
C5_Witness ==
    \E d \in DlSlots :
        /\ dl[d].pc = "done" /\ dl[d].id \in DOMAIN jobs
        /\ worker[dl[d].id].pc = "done"
        /\ dl[d].resp.code \in {200, 500}
        /\ \A j \in JobIds : worker[j].pc = "done"

\* the complete transformed output of the upload of job j
FullOutput(j) == TransformRows(worker[j].data, NoWriteFailure).out

\* C6: whenever a record is seen with status completed (its update has left
\* the critical section), the file at its output location holds the complete
\* transformed output.
C6_CompletedHasFullOutput ==
    \A j \in DOMAIN jobs :
        (jobs[j].Status = JobStatusCompleted /\ mu.w # <<"worker", j>>) =>
            /\ jobs[j].FilePath = GetProcessedFilePath(j)
            /\ GetProcessedFilePath(j) \in DOMAIN files
            /\ files[GetProcessedFilePath(j)] = FullOutput(j)

\* the faults after which ProcessCSV or SaveUploadedFile returned an error
Reported == {"save", "open", "create", "read", "write"}

C8_FailureEndsFailed ==
    \A j \in JobIds :
        (worker[j].pc = "done" /\ worker[j].fault # "none") =>
            /\ jobs[j].Status = JobStatusFailed
            /\ jobs[j].Error # ""

\* C9: ProcessCSV returns an error whenever the destination could not be
\* created or a row did not reach it (at a write or at the final flush).
C9_WriteFailureReturnsError ==
    \A j \in JobIds :
        (worker[j].pc \in {"update", "status", "fields", "done"}
            /\ worker[j].fault \in {"create", "write", "flush"}) =>
                worker[j].errorMsg # ""

\* C10: the response of a download is decided by the record: 400 'Invalid
\* job ID' for an id without record, 423 without file for processing, 500
\* with the worker's error message for failed, the bytes at the output
\* location for completed.
C10_ResponseFromRecord ==
    \A d \in DlSlots :
        dl[d].pc = "done" =>
            LET id == dl[d].id
                r == dl[d].resp
            IN  /\ dl[d].status = "" => r = ErrorResponse(400, "Invalid job ID")
                /\ id \notin DOMAIN jobs => r.code = 400
                /\ dl[d].status = JobStatusProcessing =>
                      r = [NoResp EXCEPT !.code = 423]
                /\ dl[d].status = JobStatusFailed =>
                      (worker[id].errorMsg # ""
                          /\ r = ErrorResponse(500, worker[id].errorMsg))
                /\ dl[d].status = JobStatusCompleted =>
                      (r.code = 200 /\ r.file
                          /\ r.body = files[worker[id].filePath])

\* the worker of job j has not yet entered UpdateJobStatus
BeforeUpdate(j) == worker[j].pc \in {"save", "process", "update"}

\* C11: the record of an upload is in the store before its worker exists and
\* before its id is returned, so the worker's UpdateJobStatus finds the
\* record, a download of a returned id is never answered 'Invalid job ID',
\* and one that reads the status before the worker's update is answered 423.
C11_RecordBeforeWorkerAndId ==
    /\ [](\A j \in JobIds :
            (worker[j].pc # "none" \/ up[j].resp.code = 200) => Created(j))
    /\ [][\A d \in DlSlots :
            (dl[d].id \in JobIds /\ up[dl[d].id].pc = "done") =>
                /\ (dl[d].pc = "get" /\ dl'[d].pc # "get") =>
                      (dl'[d].pc = "switch" /\ dl'[d].resp.code # 400)
                /\ (dl[d].pc = "switch" /\ dl'[d].pc # "switch"
                        /\ BeforeUpdate(dl[d].id)) =>
                      (dl'[d].pc = "done"
                          /\ dl'[d].resp = [NoResp EXCEPT !.code = 423])]_vars

\* a download of a returned id has been answered 423 while the worker of
\* the job is still before its update
C11_Witness ==
    \E d \in DlSlots :
        /\ dl[d].pc = "done" /\ dl[d].id \in JobIds
        /\ up[dl[d].id].resp.code = 200
        /\ BeforeUpdate(dl[d].id)
        /\ dl[d].resp.code = 423

\* the records of the ids other than id are the same in js and in ks
OthersKept(js, ks, id) ==
    \A x \in DOMAIN js \ {id} : x \in DOMAIN ks /\ ks[x] = js[x]

\* C12: CreateJob(id) leaves id mapped to a record with ID = id, status
\* processing, the time of the call, no FilePath and no Error, and returns
\* it, whether or not id had a record; a record id had is replaced and the
\* number of records stays, otherwise it grows by one; other records stay.
C12_CreateJobFreshRecord ==
    [][clock' # clock =>
          LET id == lastOp'.id
          IN  /\ lastOp'.op = "CreateJob"
              /\ DOMAIN jobs' = DOMAIN jobs \cup {id}
              /\ jobs'[id] = [ID |-> id, Status |-> JobStatusProcessing,
                              CreatedAt |-> clock', FilePath |-> "", Error |-> ""]
              /\ lastOp'.job = jobs'[id]
              /\ id \in DOMAIN jobs =>
                    Cardinality(DOMAIN jobs') = Cardinality(DOMAIN jobs)
              /\ id \notin DOMAIN jobs =>
                    Cardinality(DOMAIN jobs') = Cardinality(DOMAIN jobs) + 1
              /\ OthersKept(jobs, jobs', id)]_vars

\* the second CreateJob of a run was for the id of the first one, whose
\* record it replaced
C12_Witness ==
    /\ lastOp.op = "CreateJob" /\ clock = 2
    /\ DOMAIN jobs = {lastOp.id}
    /\ jobs[lastOp.id].CreatedAt = 2

\* C13: the ids GetJob finds are those CreateJob was called with.  No record
\* exists at the start, each step adds to the ids with a record exactly the
\* id of a CreateJob call, and GetJob(id) answers found with the record
\* stored for id when id has one, and (nil, false) when it has none.
C13_FoundIffCreated ==
    /\ DOMAIN jobs = {}
    /\ [][DOMAIN jobs' =
            DOMAIN jobs \cup (IF clock' # clock THEN {lastOp'.id} ELSE {})]_vars
    /\ [](lastOp.op = "GetJob" =>
            /\ lastOp.found <=> lastOp.id \in DOMAIN jobs
            /\ lastOp.found => lastOp.job = jobs[lastOp.id]
            /\ ~lastOp.found => lastOp.job = NilJob)

\* GetJob has just answered not-found for an id while another id has a
\* record that was updated
C13_Witness ==
    /\ lastOp.op = "GetJob" /\ ~lastOp.found
    /\ lastOp.id \notin DOMAIN jobs
    /\ \E x \in DOMAIN jobs : jobs[x].Status = JobStatusCompleted

\* C14: UpdateJobStatus for an id without record changes nothing: no record
\* is created for the id, the number of records and every record stay.
C14_UpdateUnknownIsNoOp ==
    [][(lastOp'.op = "UpdateJobStatus" /\ lastOp'.id \notin DOMAIN jobs) =>
          /\ jobs' = jobs
          /\ lastOp'.id \notin DOMAIN jobs'
          /\ Cardinality(DOMAIN jobs') = Cardinality(DOMAIN jobs)]_vars

\* UpdateJobStatus has just been called for an id without record, with a
\* path and a message, while another id has a record
C14_Witness ==
    /\ lastOp.op = "UpdateJobStatus" /\ ~lastOp.found
    /\ lastOp.id \notin DOMAIN jobs
    /\ lastOp.job.FilePath # "" /\ lastOp.job.Error # ""
    /\ DOMAIN jobs # {}

\* C15: UpdateJobStatus for an id with a record sets the status to the one
\* given, FilePath and Error to the ones given when these are not empty, and
\* leaves FilePath (Error) as stored when the one given is empty; nothing
\* else of the record and no other record changes.
C15_UpdateSetsNonEmpty ==
    [][(lastOp'.op = "UpdateJobStatus" /\ lastOp'.id \in DOMAIN jobs) =>
          LET id == lastOp'.id
              arg == lastOp'.job
          IN  /\ DOMAIN jobs' = DOMAIN jobs
              /\ jobs'[id].Status = arg.Status
              /\ jobs'[id].FilePath =
                    (IF arg.FilePath # "" THEN arg.FilePath ELSE jobs[id].FilePath)
              /\ jobs'[id].Error =
                    (IF arg.Error # "" THEN arg.Error ELSE jobs[id].Error)
              /\ jobs'[id].ID = jobs[id].ID
              /\ jobs'[id].CreatedAt = jobs[id].CreatedAt
              /\ OthersKept(jobs, jobs', id)]_vars

\* an UpdateJobStatus with an empty path and an empty message has left a
\* record whose FilePath and Error are both set
C15_Witness ==
    /\ lastOp.op = "UpdateJobStatus" /\ lastOp.found
    /\ lastOp.job.FilePath = "" /\ lastOp.job.Error = ""
    /\ jobs[lastOp.id].FilePath # "" /\ jobs[lastOp.id].Error # ""
    /\ jobs[lastOp.id].Status = JobStatusProcessing

\* C16: no registry operation removes a record: an id GetJob finds in a
\* state is found in the next one.
C16_NoDeletion ==
    [][\A id \in RegIds : GetJob(jobs, id)[2] => GetJob(jobs', id)[2]]_vars

\* GetJob finds an id after every CreateJob of the run, on both ids, and
\* updates to both records
C16_Witness ==
    /\ lastOp.op = "GetJob" /\ lastOp.found
    /\ clock = MaxCalls /\ DOMAIN jobs = RegIds
    /\ \A x \in RegIds : jobs[x].Status = JobStatusFailed

\* C17: goroutines that each call CreateJob, UpdateJobStatus(completed) and
\* GetJob for an id of their own lose no create and no update, however their
\* steps interleave: the record of a goroutine is in the store from its
\* CreateJob on and completed with its path from its UpdateJobStatus on,
\* each GetJob finds the record, each goroutine reads completed, and when
\* all are done the store holds one record per goroutine.
C17_NoLostCreateOrUpdate ==
    /\ \A c \in CtxIds :
          /\ ctx[c].pc \notin {"start", "table", "insert"} =>
                (c \in DOMAIN jobs /\ ctx[c].created = c /\ jobs[c].ID = c)
          /\ ctx[c].pc \in {"rlock", "get", "check", "done"} =>
                /\ jobs[c].Status = JobStatusCompleted
                /\ jobs[c].FilePath = TestPath
          /\ ctx[c].pc \in {"check", "done"} => ctx[c].found
          /\ ctx[c].pc = "done" => ctx[c].read = JobStatusCompleted
    /\ (\A c \in CtxIds : ctx[c].pc = "done") =>
          Cardinality(DOMAIN jobs) = MaxCtx

\* every goroutine is done and has read completed; their CreateJob calls
\* came one after the other
C17_Witness ==
    /\ \A c \in CtxIds : ctx[c].pc = "done" /\ ctx[c].read = JobStatusCompleted
    /\ Cardinality(DOMAIN jobs) = MaxCtx
    /\ \E c \in CtxIds : \A x \in CtxIds \ {c} :
          jobs[c].CreatedAt < jobs[x].CreatedAt

\* what holds the lock must not be at a step that does file I/O
SavingOrProcessing(j) == worker[j].pc \in {"save", "process"}
Streaming(d) == dl[d].pc = "serve"

\* C18: no goroutine holds the store's mutex while it does file I/O: a
\* worker holds the write lock only between Lock and Unlock of its
\* UpdateJobStatus, an upload only inside CreateJob, a download holds the
\* read lock only inside GetJob; and no step that writes a file or answers
\* with one is taken by a goroutine that holds the lock before or after it.
C18_NoLockDuringIO ==
    /\ [](\A j \in JobIds :
            /\ mu.w = <<"worker", j>> =>
                  (worker[j].pc \in {"status", "fields"} /\ ~SavingOrProcessing(j))
            /\ mu.w = <<"upload", j>> => up[j].pc = "create")
    /\ [](\A d \in DlSlots : d \in mu.r => (dl[d].pc = "get" /\ ~Streaming(d)))
    /\ [][\A j \in JobIds :
            (worker'[j] # worker[j] /\ SavingOrProcessing(j)) =>
                (mu.w # <<"worker", j>> /\ mu'.w # <<"worker", j>>)]_vars
    /\ [][\A d \in DlSlots :
            dl'[d].resp.file => (d \notin mu.r /\ d \notin mu'.r)]_vars

\* a worker is about to run ProcessCSV and a download is about to open the
\* output file of the other job, while the lock is free
C18_Witness ==
    \E j \in JobIds, d \in DlSlots :
        /\ worker[j].pc = "process"
        /\ dl[d].pc = "serve" /\ dl[d].id # j
        /\ mu = Unlocked

\* inside the critical section of GetJob; of CreateJob or UpdateJobStatus
Reading(c) == ctx[c].pc = "get"
Writing(c) == ctx[c].pc \in {"table", "insert", "status", "fields"}

\* C19: a goroutine is inside CreateJob's or UpdateJobStatus's critical
\* section only when no other goroutine is inside one of the store's
\* critical sections, and goroutines inside GetJob's keep no other
\* goroutine from entering it: as long as no writer is inside, RLock is
\* free, however many readers are.
C19_ReaderWriterLock ==
    /\ \A c \in CtxIds :
          Writing(c) =>
              /\ mu.w = CtxHolder(c)
              /\ \A x \in CtxIds \ {c} : ~Reading(x) /\ ~Writing(x)
    /\ \A c \in CtxIds : Reading(c) <=> CtxHolder(c) \in mu.r
    /\ (\A c \in CtxIds : ~Writing(c)) => CanRLock

\* every goroutine is inside GetJob's critical section at the same time
C19_Witness ==
    /\ \A c \in CtxIds : Reading(c)
    /\ Cardinality(mu.r) = MaxCtx

\* a row is blank if it has no field, or one field that is empty once
\* trimmed
BlankRow(row) == Len(row) = 0 \/ (Len(row) = 1 /\ TrimSpace(row[1]) = <<>>)
NonBlankRows(lines) == SelectSeq(lines, LAMBDA row : ~BlankRow(row))

\* C20: when ProcessCSV returns no error, the destination has as many rows
\* as the source has non-blank rows; blank rows give no row and do not count
\* for the header, which is the first non-blank row with has_email appended,
\* while no later row gets the header text.
C20_OutputRowsEqualNonBlank ==
    (csv.pc = "done" /\ csv.err = "") =>
        LET rows == NonBlankRows(csv.input)
        IN  /\ Len(csv.out) = Len(rows)
            /\ \A i \in 1..Len(csv.out) :
                  LET last == csv.out[i][Len(csv.out[i])]
                  IN  IF i = 1
                      THEN csv.out[i] = Append(rows[i], HasEmailColumn)
                      ELSE last \in {TrueText, FalseText}

\* a row whose only field is whitespace
WhitespaceRow(row) == Len(row) = 1 /\ row[1] # <<>> /\ TrimSpace(row[1]) = <<>>

\* lines without its i-th line
RemoveAt(lines, i) == SubSeq(lines, 1, i - 1) \o SubSeq(lines, i + 1, Len(lines))

\* C21: a row whose only field is whitespace is dropped wherever it stands:
\* if ProcessCSV succeeds on the source without that row, it succeeds on the
\* source with it, and the output is the same.
C21_WhitespaceRowDropped ==
    (csv.pc = "done" /\ csv.openOk /\ csv.createOk) =>
        \A i \in 1..Len(csv.input) :
            WhitespaceRow(csv.input[i]) =>
                LET without == TransformRows(RemoveAt(csv.input, i), csv.okw)
                IN  without.err = "" => (csv.err = "" /\ csv.out = without.out)

\* C22: when ProcessCSV returns no error on a source with a non-blank row,
\* the first row of the destination is the first non-blank row of the
\* source with the field has_email appended, whatever that row holds (its
\* fields are not looked at for emails).
C22_HeaderGetsHasEmail ==
    (csv.pc = "done" /\ csv.err = "" /\ NonBlankRows(csv.input) # <<>>) =>
        /\ csv.out # <<>>
        /\ csv.out[1] = Append(NonBlankRows(csv.input)[1], HasEmailColumn)

\* C23: when ProcessCSV returns no error, the k-th row of the destination
\* after the header is the k-th non-blank row of the source after the
\* header, with its fields as they were and in their order, followed by
\* one field: true if HasValidEmail holds of the row's fields, else false.
C23_RowsInOrderWithFlag ==
    (csv.pc = "done" /\ csv.err = "") =>
        LET rows == NonBlankRows(csv.input)
        IN  /\ Len(csv.out) = Len(rows)
            /\ \A k \in 2..Len(rows) :
                  /\ SubSeq(csv.out[k], 1, Len(rows[k])) = rows[k]
                  /\ Len(csv.out[k]) = Len(rows[k]) + 1
                  /\ csv.out[k][Len(csv.out[k])] =
                        (IF HasValidEmail(rows[k]) THEN TrueText ELSE FalseText)

\* the call met no failing file operation
AllFileOpsOk == csv.openOk /\ csv.createOk /\ csv.okw = MaxLines

\* C24: with every file operation succeeding, ProcessCSV succeeds on a
\* source without rows and leaves a destination without rows, and succeeds
\* on a source of one non-blank row (a header) and leaves that row with
\* has_email appended as the only row.
C24_EmptyAndHeaderOnly ==
    (csv.pc = "done" /\ AllFileOpsOk) =>
        /\ csv.input = <<>> =>
              (csv.err = "" /\ csv.made /\ csv.out = <<>>)
        /\ (Len(csv.input) = 1 /\ csv.input[1] # BadLine
                /\ ~BlankRow(csv.input[1])) =>
              /\ csv.err = "" /\ csv.made
              /\ csv.out = << Append(csv.input[1], HasEmailColumn) >>

\* the source was one row that holds an email address; the destination is
\* that row with has_email
C24_Witness ==
    /\ csv.pc = "done" /\ AllFileOpsOk
    /\ csv.input = << <<fName, fMail>> >>
    /\ csv.out = << <<fName, fMail, HasEmailColumn>> >>

\* what a call left: whether it returned an error, whether its destination
\* exists, and the rows in it
Outcome(p) ==
    [failed |-> call[p].err # "",
     made |-> DestPath(p) \in DOMAIN files,
     out |-> IF DestPath(p) \in DOMAIN files THEN files[DestPath(p)] ELSE <<>>]

\* the outcome of ProcessCSV run alone on the source, with what call p met
Alone(p) ==
    LET r == ProcessCSV(WriteFile(<<>>, CsvInPath, csv.input), CsvInPath,
                        DestPath(p), call[p].openOk, call[p].createOk, call[p].okw)
    IN  [failed |-> r.err # "",
         made |-> DestPath(p) \in DOMAIN r.files,
         out |-> IF DestPath(p) \in DOMAIN r.files
                 THEN r.files[DestPath(p)] ELSE <<>>]

SameFileOps(p, q) ==
    /\ call[p].openOk = call[q].openOk
    /\ call[p].createOk = call[q].createOk
    /\ call[p].okw = call[q].okw

Records(lines) == SelectSeq(lines, LAMBDA l : l # <<>>)
FailsAt(lines, i) ==
    /\ lines[i] # <<>>
    /\ \/ lines[i] = BadLine
       \/ Len(lines[i]) # Len(Records(lines)[1])
FirstFailure(lines) ==
    IF \E i \in 1..Len(lines) : FailsAt(lines, i)
    THEN CHOOSE i \in 1..Len(lines) :
            FailsAt(lines, i) /\ \A h \in 1..(i - 1) : ~FailsAt(lines, h)
    ELSE 0

\* ProcessCSV stopped at the first line the reader fails on: it returned an
\* error, and the destination holds nothing but rows that come from the
\* non-blank rows before that line, in their order
StoppedAtFailure(lines, err, out) ==
    LET before == NonBlankRows(SubSeq(lines, 1, FirstFailure(lines) - 1))
    IN  /\ err # ""
        /\ Len(out) <= Len(before)
        /\ \A i \in 1..Len(out) : out[i] = AugmentRecord(before[i], i - 1)

\* the worker of job j is past ProcessCSV
PastProcessCSV(j) == worker[j].pc \in {"update", "status", "fields", "done"}

Inked(s) == {i \in 1..Len(s) : s[i] \notin WhiteSpace}
Strip(s) ==
    IF Inked(s) = {} THEN <<>>
    ELSE SubSeq(s, CHOOSE i \in Inked(s) : \A h \in Inked(s) : i <= h,
                   CHOOSE i \in Inked(s) : \A h \in Inked(s) : h <= i)

Ats(s) == {i \in 1..Len(s) : s[i] = "@"}
Dots(s) == {i \in 1..Len(s) : s[i] = "."}
LetterOrDigit(c) == c \in Letters \cup Digits
LocalChar(c) == LetterOrDigit(c) \/ c \in {".", "_", "%", "+", "-"}
DomainChar(c) == LetterOrDigit(c) \/ c \in {".", "-"}

\* the part of t before its @, and the part after it (t has one @)
LocalOf(t) == SubSeq(t, 1, (CHOOSE i \in Ats(t) : TRUE) - 1)
DomainOf(t) == SubSeq(t, (CHOOSE i \in Ats(t) : TRUE) + 1, Len(t))
\* the part of d after its last dot (d has a dot)
LastDot(d) == CHOOSE i \in Dots(d) : \A h \in Dots(d) : h <= i
FinalLabel(d) == SubSeq(d, LastDot(d) + 1, Len(d))

\* the conditions C27 lists, of a trimmed string t
WellFormed(t) ==
    /\ Cardinality(Ats(t)) = 1
    /\ LET local == LocalOf(t)
           domain == DomainOf(t)
       IN  /\ local # <<>>
           /\ LetterOrDigit(local[1]) /\ LetterOrDigit(local[Len(local)])
           /\ \A i \in 1..Len(local) : LocalChar(local[i])
           /\ domain # <<>>
           /\ LetterOrDigit(domain[1])
           /\ \A i \in 1..Len(domain) : DomainChar(domain[i])
           /\ Dots(domain) # {}
           /\ Len(FinalLabel(domain)) >= 2
           /\ \A i \in 1..Len(FinalLabel(domain)) : FinalLabel(domain)[i] \in Letters

C28_TrimmedWholeMatch ==
    mail.pc = "done" =>
        /\ mail.valid = IsValidEmail(Strip(mail.s))
        /\ \A l \in {<<>>, <<" ">>, <<"\t", " ">>}, r \in {<<>>, <<" ">>, <<" ", "\t">>} :
              IsValidEmail(l \o mail.s \o r) = mail.valid
        /\ Strip(mail.s) = <<>> => ~mail.valid
        /\ mail.valid =>
              /\ \A i \in 1..Len(Strip(mail.s)) : Strip(mail.s)[i] \notin WhiteSpace
              /\ ~IsValidEmail(<<"!">> \o Strip(mail.s))
              /\ ~IsValidEmail(Strip(mail.s) \o <<"!">>)
              /\ \A sep \in {<<" ">>, <<"!">>}, more \in {<<"a">>, fMail} :
                    /\ ~IsValidEmail(more \o sep \o Strip(mail.s))
                    /\ ~IsValidEmail(Strip(mail.s) \o sep \o more)

\* an accepted string with whitespace on both sides
C28_Witness ==
    /\ mail.pc = "done" /\ mail.valid
    /\ mail.s[1] \in WhiteSpace /\ mail.s[Len(mail.s)] \in WhiteSpace

BeforeLastDot(d) == SubSeq(d, 1, LastDot(d) - 1)
AlNumEnds(x) == x # <<>> /\ LetterOrDigit(x[1]) /\ LetterOrDigit(x[Len(x)])

QuirkForm(s) ==
    /\ Cardinality(Ats(s)) = 1
    /\ Len(LocalOf(s)) >= 2
    /\ AlNumEnds(LocalOf(s))
    /\ \A i \in 1..Len(LocalOf(s)) : LocalChar(LocalOf(s)[i])
    /\ Dots(DomainOf(s)) # {}
    /\ AlNumEnds(BeforeLastDot(DomainOf(s)))
    /\ \A i \in 1..Len(DomainOf(s)) : DomainChar(DomainOf(s)[i])
    /\ Len(FinalLabel(DomainOf(s))) >= 2
    /\ \A i \in 1..Len(FinalLabel(DomainOf(s))) : FinalLabel(DomainOf(s))[i] \in Letters

\* C30: IsValidEmail accepts every string x P y @ d . t, whatever characters
\* of the local class P repeats, consecutive dots included.
C30_RepeatedPunctuationAccepted ==
    (mail.pc = "done" /\ QuirkForm(mail.s)) => mail.valid

\* an accepted string with two dots in a row before the @
C30_Witness ==
    /\ mail.pc = "done" /\ mail.valid /\ QuirkForm(mail.s)
    /\ \E i \in 1..(Len(mail.s) - 1) :
          /\ mail.s[i] = "." /\ mail.s[i + 1] = "."
          /\ \E at \in Ats(mail.s) : i + 1 < at

\* C31: HasValidEmail(fields) is true exactly when IsValidEmail holds of at
\* least one field of the row, wherever that field stands and whatever the
\* other fields are: putting one more field anywhere into the row gives true
\* exactly when the row gave true or the new field is an address.  A row
\* without fields, or with only empty or invalid fields, gives false.
InsertAt(q, k, x) == SubSeq(q, 1, k - 1) \o <<x>> \o SubSeq(q, k, Len(q))
C31_AnyFieldAnyPosition ==
    rowCall.pc = "done" =>
        LET fields == rowCall.fields
        IN  /\ rowCall.has <=> \E i \in 1..Len(fields) : IsValidEmail(fields[i])
            /\ (\A i \in 1..Len(fields) :
                    fields[i] = <<>> \/ ~IsValidEmail(fields[i])) => ~rowCall.has
            /\ \A x \in RowFields, k \in 1..(Len(fields) + 1) :
                  HasValidEmail(InsertAt(fields, k, x))
                      <=> (rowCall.has \/ IsValidEmail(x))

\* a row whose only address is its last field, after two fields that are none
C31_Witness ==
    /\ rowCall.pc = "done"
    /\ rowCall.has
    /\ Len(rowCall.fields) = 3
    /\ ~IsValidEmail(rowCall.fields[1])
    /\ ~IsValidEmail(rowCall.fields[2])
    /\ IsValidEmail(rowCall.fields[3])

\* C32: an upload that is turned down because the multipart form cannot be
\* parsed, because it has no file field, or because the content type does
\* not contain text/csv and the name does not end in .csv (ignoring case)
\* gets a 400 response with an error field and no id; turning an upload
\* down creates no record, starts no worker and leaves the registry and its
\* lock as they were; wherever an upload can reach CreateJob, no such
\* request can.  An upload that passes the checks gets 200 with its id, and
\* its CreateJob adds exactly one record, under that id, no other step of
\* the handler changing the registry.
HasTextCsv(contentType) ==
    \E i \in 1..Len(contentType) :
        \A k \in 1..Len(TextCsv) :
            i + k - 1 <= Len(contentType) /\ contentType[i + k - 1] = TextCsv[k]
EndsInCsv(filename) ==
    LET n == Len(filename)
    IN  /\ n >= 4
        /\ filename[n - 3] = "."
        /\ filename[n - 2] \in {"c", "C"}
        /\ filename[n - 1] \in {"s", "S"}
        /\ filename[n] \in {"v", "V"}
TurnedDown(r) ==
    \/ ~r.parseOk
    \/ ~r.hasFile
    \/ ~HasTextCsv(r.contentType) /\ ~EndsInCsv(r.filename)
C32_RejectedUploadCreatesNothing ==
    /\ [][req' # req =>
            /\ req'.pc = "done"
            /\ TurnedDown(req'.r) <=> req'.resp.code = 400
            /\ req'.resp.code \in {400, 500}
            /\ req'.resp.error # ""
            /\ req'.resp.id = UnknownId
            /\ jobs' = jobs /\ mu' = mu /\ clock' = clock
            /\ worker' = worker /\ up' = up /\ files' = files]_vars
    /\ [][(\E j \in JobIds : up[j].pc = "idle" /\ up'[j].pc = "create") =>
            \A r \in Requests : TurnedDown(r) =>
                \A j \in JobIds, data \in Files :
                    ~ENABLED UploadAccept(j, data, r)]_vars
    /\ [][\A j \in JobIds : up'[j] # up[j] =>
            /\ req' = req
            /\ IF up[j].pc = "create"
               THEN /\ j \notin DOMAIN jobs
                    /\ DOMAIN jobs' = DOMAIN jobs \cup {j}
                    /\ \A k \in DOMAIN jobs : jobs'[k] = jobs[k]
               ELSE jobs' = jobs
            /\ up'[j].pc = "done" =>
                  /\ up'[j].resp.code = 200
                  /\ up'[j].resp.error = ""
                  /\ up'[j].resp.id = j
                  /\ j # UnknownId
                  /\ j \in DOMAIN jobs'
                  /\ worker'[j].pc # "none"]_vars

\* test.txt sent as text/plain has been turned down with 400 after A.CSV,
\* sent as text/plain too, was accepted and answered with its id
C32_Witness ==
    /\ req.pc = "done"
    /\ req.r.filename = <<"a", ".", "t", "x", "t">>
    /\ req.r.contentType = TextPlain
    /\ req.resp = ErrorResponse(400, "File must be a CSV file")
    /\ up[1].pc = "done"
    /\ up[1].filename = "A.CSV"
    /\ up[1].resp.id = 1
    /\ DOMAIN jobs = {1}

\* C33: storage locations are derived from the job id and never collide:
\* two jobs with different ids share neither a saved-upload path nor a
\* processed-output path, whatever the file names, and no upload path is an
\* output path; so a worker writes no file but its own two and reads its
\* own upload, and once a job's worker has recorded it as completed, the
\* file at its FilePath is the transform of the data uploaded for it.
UploadPath(j, filename) == UploadsDir \o "/" \o UploadFileName(j, filename)
AllNames == FileNames \cup {Str(n) : n \in UploadNames}
PathsDistinct ==
    \A i \in JobIds, j \in JobIds, f \in AllNames, g \in AllNames :
        /\ i # j => UploadPath(i, f) # UploadPath(j, g)
        /\ i # j => GetProcessedFilePath(i) # GetProcessedFilePath(j)
        /\ UploadPath(i, f) # GetProcessedFilePath(j)
Touched(fs, gs) ==
    {p \in DOMAIN fs \cup DOMAIN gs :
        p \notin DOMAIN fs \/ p \notin DOMAIN gs \/ fs[p] # gs[p]}
OwnFilesOnly ==
    \A j \in JobIds :
        worker'[j] # worker[j] =>
            /\ Touched(files, files') \subseteq
                  {UploadPath(j, up[j].filename), GetProcessedFilePath(j)}
            /\ worker'[j].uploadPath \in {"", UploadPath(j, up[j].filename)}
            /\ worker'[j].filePath \in {"", GetProcessedFilePath(j)}
OutputOfOwnUpload ==
    \A j \in JobIds :
        (Created(j) /\ jobs[j].Status = JobStatusCompleted
                    /\ worker[j].pc = "done") =>
            /\ jobs[j].FilePath = GetProcessedFilePath(j)
            /\ jobs[j].FilePath \in DOMAIN files
            /\ files[jobs[j].FilePath] = TransformRows(up[j].data, NoWriteFailure).out
C33_PathsCollisionFree ==
    /\ PathsDistinct
    /\ [][OwnFilesOnly]_vars
    /\ [][OutputOfOwnUpload']_vars

\* C34: the upload path never waits for the transformation.  The handler of
\* a job runs to its end before the job's worker takes any step; each of
\* its steps can be taken whatever the workers of the other jobs are doing,
\* unless somebody is inside a call of the registry (the only thing the
\* handler waits for is the registry's lock); and when it has returned the
\* id, the job is still processing until its worker has updated it.  All
\* workers can be in flight at the same time.
InRegistry ==
    \/ \E k \in JobIds : up[k].pc = "create" \/ worker[k].pc \in {"status", "fields"}
    \/ \E d \in DlSlots : dl[d].pc = "get"
NextUploadOf(j) == up[j].pc = "idle" /\ \A k \in JobIds : k < j => up[k].pc # "idle"
Transforming(j) == worker[j].pc \in {"save", "process"}
C34_UploadNeverWaitsForWorker ==
    \A j \in JobIds :
        /\ up[j].pc \in {"idle", "create", "go"} => worker[j].pc = "none"
        /\ (NextUploadOf(j) /\ ~InRegistry) =>
              ENABLED (\E data \in Files, filename \in FileNames :
                          UploadCreateLock(j, data, filename))
        /\ up[j].pc = "create" => ENABLED UploadCreateJob(j)
        /\ up[j].pc = "go" => ENABLED UploadGo(j)
        /\ (up[j].pc = "done" /\ worker[j].pc \in {"save", "process", "update"}) =>
              /\ up[j].resp.code = 200
              /\ up[j].resp.id = j
              /\ Created(j)
              /\ jobs[j].Status = JobStatusProcessing

\* the second upload has returned its id while the workers of both jobs are
\* still transforming
C34_Witness ==
    /\ up[2].pc = "done"
    /\ up[2].resp.id = 2
    /\ Transforming(1)
    /\ Transforming(2)
    /\ jobs[1].Status = JobStatusProcessing
    /\ jobs[2].Status = JobStatusProcessing

\* C35: CreateJob and UpdateJobStatus on an id change nothing about the
\* records stored under the other ids: every other id has a record after
\* the call exactly if it had one before, with the same ID, status,
\* FilePath, Error and creation time.
SameRecord(a, b) ==
    /\ a.ID = b.ID
    /\ a.Status = b.Status
    /\ a.FilePath = b.FilePath
    /\ a.Error = b.Error
    /\ a.CreatedAt = b.CreatedAt
C35_OtherRecordsUntouched ==
    [][lastOp'.op \in {"CreateJob", "UpdateJobStatus"} =>
          \A x \in RegIds \ {lastOp'.id} :
              /\ x \in DOMAIN jobs' <=> x \in DOMAIN jobs
              /\ x \in DOMAIN jobs => SameRecord(jobs'[x], jobs[x])]_vars

\* job 1 has been updated to failed while job 2, created after it, has the
\* record CreateJob gave it
C35_Witness ==
    /\ lastOp.op = "UpdateJobStatus"
    /\ lastOp.id = 1
    /\ DOMAIN jobs = {1, 2}
    /\ jobs[1].Status = JobStatusFailed
    /\ jobs[1].Error = "boom"
    /\ jobs[2] = NewJob(2, 2)

\* C36: DownloadHandler only reads the registry: no step of a download, for
\* any id and any status of the job, changes the set of records, a field of
\* a record or a file; and the response is a function of the registry and
\* the files alone, so downloads of the same id in the same registry state
\* get the same response (a download that ends while no UpdateJobStatus is
\* writing the record, and while the record has the status the download
\* read, gets the answer that state determines).
Answer(js, fs, id) ==
    IF id \notin DOMAIN js THEN ErrorResponse(400, "Invalid job ID")
    ELSE IF js[id].Status = JobStatusProcessing THEN [NoResp EXCEPT !.code = 423]
    ELSE IF js[id].Status = JobStatusFailed THEN ErrorResponse(500, js[id].Error)
    ELSE IF js[id].FilePath \in DOMAIN fs
    THEN [NoResp EXCEPT !.code = 200, !.file = TRUE, !.body = fs[js[id].FilePath]]
    ELSE ErrorResponse(500, "Failed to open processed file")
C36_DownloadReadOnly ==
    [][\A d \in DlSlots :
          dl'[d] # dl[d] =>
              /\ jobs' = jobs
              /\ files' = files
              /\ clock' = clock
              /\ (/\ dl'[d].pc = "done"
                  /\ dl[d].id \in DOMAIN jobs =>
                        /\ jobs[dl[d].id].Status = dl'[d].status
                        /\ worker[dl[d].id].pc \notin {"status", "fields"}) =>
                    dl'[d].resp = Answer(jobs, files, dl[d].id)]_vars

\* a download of a completed job has been answered with the file, and the
\* record and the file are as they were
C36_Witness ==
    \E d \in DlSlots :
        /\ dl[d].pc = "done"
        /\ dl[d].id \in DOMAIN jobs
        /\ jobs[dl[d].id].Status = JobStatusCompleted
        /\ worker[dl[d].id].pc = "done"
        /\ dl[d].resp.file
        /\ dl[d].resp = Answer(jobs, files, dl[d].id)

\* C37: in every state reachable through uploads, workers and downloads the
\* status of every record is processing, completed or failed, so no
\* download takes the 'Unknown job status' branch of DownloadHandler.
StatusKnown ==
    \A id \in DOMAIN jobs :
        jobs[id].Status \in {JobStatusProcessing, JobStatusCompleted, JobStatusFailed}
C37_UnknownStatusNeverTaken ==
    /\ StatusKnown
    /\ \A d \in DlSlots :
          /\ dl[d].resp # ErrorResponse(500, "Unknown job status")
          /\ dl[d].status \in
                {"", JobStatusProcessing, JobStatusCompleted, JobStatusFailed}

\* C38: ProcessCSV opens the source before it creates the destination.  A
\* call whose source cannot be opened returns the open error, whether or not
\* the destination could have been created, and leaves the destination path
\* as it was: no file there if there was none, and the same content if
\* there was one.  (A call that gets past the open replaces what was there.)
C38_OpenBeforeCreate ==
    csv.pc = "done" =>
        /\ ~csv.openOk =>
              /\ csv.fault = "open"
              /\ csv.err = "failed to open input file: EIO"
              /\ csv.made <=> csv.prior
              /\ csv.prior => csv.out = StaleOutput
              /\ files[CsvInPath] = csv.input
        /\ (csv.openOk /\ csv.createOk) =>
              (csv.made /\ (csv.input = <<>> => csv.out = <<>>))

\* the open failed on a call that could have created the destination, and
\* the file an earlier run left there is untouched
C38_Witness ==
    /\ csv.pc = "done"
    /\ ~csv.openOk
    /\ csv.createOk
    /\ csv.prior
    /\ csv.err # ""
    /\ files[CsvOutPath] = StaleOutput

=============================================================================
